---- MODULE Spec2Model ----
(***************************************************************************)
(* Translation request batching of vid-read.                               *)
(*                                                                         *)
(* Two classes named TranslationBatcher are modelled:                      *)
(*   - the rich one, src/docs/lib/translation-batcher.ts (cache, language  *)
(*     groups, retry with backoff, fallback to the source text);           *)
(*   - the simple one, src/lib/translation-batcher.ts (direct provider     *)
(*     call, needs an API key) and src/unnamed/part_022 (same scheduler,   *)
(*     posts to /api/translate).                                           *)
(* An execution concerns one batcher instance; `variant` says which class  *)
(* was constructed.  JavaScript runs each callback to its next await       *)
(* without interleaving, so one action is one such synchronous run.        *)
(*                                                                         *)
(* Two further parts stand by themselves: the delay the rich batcher waits *)
(* before a retry, followed over more attempts than a batch is given       *)
(* (SpecBackoff), and the worker pool of the /api/translate handler,       *)
(* src/docs/app/api/translate/route.ts (SpecRoute).                        *)
(***************************************************************************)
EXTENDS Integers, Sequences, FiniteSets, TLC

\* ------------------------------------------------------------------ bounds
MaxCalls == 3          \* translate() calls issued in one execution
maxBatchSize == 2      \* constructor argument maxBatchSize
maxRetries == 1        \* constructor argument maxRetries
MaxRetryAfter == 3     \* largest Retry-After header value (seconds)
MaxBurst == 4          \* translate() calls in one execution of SpecBurst
MaxRecorded == 2       \* translate() calls in one execution of SpecRetry
MaxAttempt == 10       \* rate-limited attempts followed in SpecBackoff
MaxTexts == 9          \* texts of the request handled in SpecRoute
CHUNK_SIZE == 2        \* texts per provider call (100 in route.ts)
CONCURRENCY == 2       \* workers of the handler at most (6 in route.ts)

batchThrottleMs == 200 \* constructor argument batchThrottleMs (its default)

\* the interval the constructor accepts maxBatchSize in
MinBatchSize == 1
MaxBatchSizeLimit == 10000
\* the maxBatchSize arguments the constructor is tried with
ConstructorSizes ==
    {-1, 0, MinBatchSize, maxBatchSize, MaxBatchSizeLimit, MaxBatchSizeLimit + 1}

\* the non-empty string the network may answer for the text at each index
Translated == <<"A", "B", "C", "D">>
Variants == {"rich", "simpleXai", "simpleApi"}

\* the translate() calls that are tried: one text under two cache keys, one
\* cache key for two texts and two languages, two languages in one batch
Requests ==
    {[text |-> "a", cacheKey |-> "k1", targetLanguage |-> "es"],
     [text |-> "a", cacheKey |-> "k2", targetLanguage |-> "es"],
     [text |-> "b", cacheKey |-> "k2", targetLanguage |-> "fr"]}
Texts == {r.text : r \in Requests}

\* the calls tried where the groups are recorded: a second text for the
\* first language as well, so that a group may hold two texts in either order
RecordedRequests ==
    Requests \cup {[text |-> "b", cacheKey |-> "k3", targetLanguage |-> "es"]}

\* the calls tried where the number of calls matters more than their
\* variety: the n-th call asks for the n-th text under the n-th cache key
BurstText == <<"a", "b", "c", "d", "e", "f">>
BurstKey == <<"k1", "k2", "k3", "k4", "k5", "k6">>
BurstRequests ==
    {[text |-> BurstText[n], cacheKey |-> BurstKey[n], targetLanguage |-> "es",
      n |-> n] : n \in DOMAIN BurstText}
BurstTexts == {"a"}

\* what a call of the onError callback does; a batcher built without the
\* callback behaves as one whose callback returns
OnErrorBehaviours == {"returns", "throws"}

VARIABLES
    variant,           \* which class this instance is
    apiKey,            \* simple: whether a non-empty apiKey was given
    queue,             \* this.queue: sequence of request objects
    processing,        \* this.processing
    scheduledTimeout,  \* rich: this.scheduledTimeout !== null
    timer,             \* simple: this.timer !== null
    timeoutPending,    \* event loop: debounce callbacks that are still due
    retrigger,         \* event loop: pending setTimeout(..., 0) callbacks
    cache,             \* rich: this.cache (Map cacheKey -> translation)
    running,           \* executions of a batch that passed the guard
    promise,           \* one entry per translate() call: its promise
    nBatches,          \* non-empty batches spliced so far
    recording,         \* whether the record of each language group is kept
    size,              \* this.maxBatchSize, the argument of the constructor
    loopAttempt,       \* retry loop: attempt
    retryAfterHeader,  \* retry loop: the Retry-After header of the response
    delay,             \* retry loop: delay
    sleeping,          \* retry loop: whether sleep(delay) is running
    requestTexts,      \* handler: texts of the request body
    index,             \* handler: index, the next chunk to take
    results,           \* handler: results
    workers,           \* handler: one entry per worker() call
    calls,             \* handler: translateBatch calls made, per chunk
    exact,             \* handler: every answer so far was as long as its chunk
    response           \* handler: what the handler has returned

\* the variables of a batcher, of the retry delay and of the handler
batcherVars == <<variant, apiKey, queue, processing, scheduledTimeout, timer,
                 timeoutPending, retrigger, cache, running, promise,
                 nBatches, recording, size>>
backoffVars == <<loopAttempt, retryAfterHeader, delay, sleeping>>
routeVars == <<requestTexts, index, results, workers, calls, exact, response>>

vars == <<variant, apiKey, queue, processing,
          scheduledTimeout, timer, timeoutPending, retrigger, cache, running,
          promise, nBatches, recording, size, backoffVars, routeVars>>

\* ----------------------------------------------------------- JS helpers
Min(a, b) == IF a < b THEN a ELSE b

\* arr[i] of a JS array (0-based index i); undefined is read as ""
ElementAt(arr, i) == IF i + 1 \in DOMAIN arr THEN arr[i + 1] ELSE ""

\* v || d for strings: the empty string and undefined are falsy
OrElse(v, d) == IF v = "" THEN d ELSE v

\* 0-based index of the first occurrence of x in arr
IndexOf(arr, x) == (CHOOSE i \in DOMAIN arr :
                       arr[i] = x /\ \A j \in 1..(i - 1) : arr[j] # x) - 1

Front(seq) == SubSeq(seq, 1, Len(seq) - 1)
Last(seq) == seq[Len(seq)]

\* Map.prototype.set
CacheSet(c, k, v) == [x \in (DOMAIN c) \cup {k} |-> IF x = k THEN v ELSE c[x]]

\* arr.splice(i, 1) on the list of running executions
RemoveAt(seq, i) == [j \in 1..(Len(seq) - 1) |-> IF j < i THEN seq[j] ELSE seq[j + 1]]

\* the instance state as one value, threaded through the synchronous calls
State == [queue |-> queue, processing |-> processing,
          scheduledTimeout |-> scheduledTimeout, timer |-> timer,
          timeoutPending |-> timeoutPending, retrigger |-> retrigger,
          cache |-> cache, running |-> running, promise |-> promise,
          nBatches |-> nBatches, recording |-> recording, size |-> size]

Becomes(s) ==
    /\ queue' = s.queue
    /\ processing' = s.processing
    /\ scheduledTimeout' = s.scheduledTimeout
    /\ timer' = s.timer
    /\ timeoutPending' = s.timeoutPending
    /\ retrigger' = s.retrigger
    /\ cache' = s.cache
    /\ running' = s.running
    /\ promise' = s.promise
    /\ nBatches' = s.nBatches

\* request.resolve(value) / request.reject(error): only the first call settles
resolve(s, request, value) ==
    LET p == s.promise[request.id] IN
    [s EXCEPT !.promise[request.id] =
        IF p.status = "pending"
        THEN [p EXCEPT !.status = "resolved", !.value = value, !.settles = 1]
        ELSE [p EXCEPT !.settles = p.settles + 1]]

reject(s, request) ==
    LET p == s.promise[request.id] IN
    [s EXCEPT !.promise[request.id] =
        IF p.status = "pending"
        THEN [p EXCEPT !.status = "rejected", !.settles = 1]
        ELSE [p EXCEPT !.settles = p.settles + 1]]

\* ================================================= rich TranslationBatcher

\* groupByLanguage: a Map keeps its keys in order of first insertion
RECURSIVE groupByLanguage(_)
groupByLanguage(batch) ==
    IF batch = <<>> THEN <<>>
    ELSE LET grouped == groupByLanguage(Front(batch))
             request == Last(batch)
             at == {i \in DOMAIN grouped :
                       grouped[i].targetLanguage = request.targetLanguage}
         IN  IF at = {}
             THEN Append(grouped, [targetLanguage |-> request.targetLanguage,
                                   requests |-> <<request>>])
             ELSE [grouped EXCEPT ![CHOOSE i \in at : TRUE].requests =
                                      Append(@, request)]

\* the texts of the group sent as they are, duplicates included
uniqueTextsNoDedup(requests) == [k \in DOMAIN requests |-> requests[k].text]

\* Array.from(new Set(requests.map(r => r.text)))
RECURSIVE uniqueTexts(_)
uniqueTexts(requests) ==
    IF requests = <<>> THEN <<>>
    ELSE LET seen == uniqueTexts(Front(requests))
             text == Last(requests).text
         IN  IF \E i \in DOMAIN seen : seen[i] = text THEN seen
             ELSE Append(seen, text)

\* no wait before a retry
getBackoffDelayZero(attempt, retryAfter) == 0

\* exponential backoff without its ceiling
getBackoffDelayUncapped(attempt, retryAfter) ==
    IF retryAfter # 0 THEN retryAfter * 1000
    ELSE 1000 * (2 ^ attempt)

\* getBackoffDelay(attempt, retryAfter); retryAfter = 0 stands for a falsy
\* value (no header, "0", or a header parseInt turns into NaN)
getBackoffDelay(attempt, retryAfter) ==
    IF retryAfter # 0 THEN retryAfter * 1000
    ELSE Min(1000 * (2 ^ attempt), 10000)

\* the fetch of translateLanguageGroup for group gi of execution i.  The
\* fields lg, fetches, answers, onErrorCalls and translations are the record
\* of the group being translated (of the last one between groups), kept
\* when recording is on: the fetch calls made, how each ended, the calls of
\* onError with their isRateLimitError, the answer that was used
fetchGroup(s, i, gi, attempt, wait) ==
    LET b == s.running[i]
        c == [b EXCEPT !.gi = gi, !.attempt = attempt, !.phase = "call",
                       !.wait = wait,
                       !.texts = uniqueTexts(b.groups[gi].requests),
                       !.dispatched =
                           IF attempt = 0
                           THEN Append(@, b.groups[gi].targetLanguage)
                           ELSE @]
    IN  [s EXCEPT !.running[i] =
            IF ~s.recording THEN c
            ELSE [c EXCEPT
                     !.lg = gi,
                     !.fetches = IF attempt = 0 THEN 1 ELSE @ + 1,
                     !.answers = IF attempt = 0 THEN <<>> ELSE @,
                     !.onErrorCalls = IF attempt = 0 THEN <<>> ELSE @,
                     !.translations = IF attempt = 0 THEN <<>> ELSE @]]

\* executeBatch up to its first await
executeBatch(s, batch) ==
    LET b == [requests |-> batch, groups |-> groupByLanguage(batch),
              gi |-> 1, attempt |-> 0, phase |-> "call", wait |-> 0,
              texts |-> <<>>, dispatched |-> <<>>, threw |-> FALSE,
              failed |-> {}, lg |-> 1, fetches |-> 0,
              answers |-> <<>>, onErrorCalls |-> <<>>, translations |-> <<>>,
              cleared |-> FALSE]
        s1 == [s EXCEPT !.running = Append(@, b),
                        !.nBatches = @ + 1]
    IN  fetchGroup(s1, Len(s1.running), 1, 0, 0)

\* a finally block that does not release the lock
finallyNextBatchKeepsLock(s) ==
    IF Len(s.queue) > 0 THEN [s EXCEPT !.retrigger = @ + 1] ELSE s

\* the finally block of processNextBatch
finallyNextBatch(s) ==
    LET s1 == [s EXCEPT !.processing = FALSE] IN
    IF Len(s1.queue) > 0 THEN [s1 EXCEPT !.retrigger = @ + 1] ELSE s1

\* processNextBatch without its guard on this.processing
processNextBatchUnguarded(s) ==
    LET s1 == [s EXCEPT !.processing = TRUE,
                        !.scheduledTimeout = FALSE,
                        !.timeoutPending =
                            IF s.scheduledTimeout THEN @ - 1 ELSE @]
        batch == SubSeq(s1.queue, 1, Min(s.size, Len(s1.queue)))
        s2 == [s1 EXCEPT !.queue = SubSeq(@, Len(batch) + 1, Len(@))]
    IN  IF Len(batch) = 0 THEN finallyNextBatch(s2)
        ELSE executeBatch(s2, batch)

\* processNextBatch taking the whole queue: splice(0) for splice(0, maxBatchSize)
processNextBatchNoCeiling(s) ==
    IF s.processing THEN s
    ELSE LET s1 == [s EXCEPT !.processing = TRUE,
                             !.scheduledTimeout = FALSE,
                             !.timeoutPending =
                                 IF s.scheduledTimeout THEN @ - 1 ELSE @]
             batch == s1.queue
             s2 == [s1 EXCEPT !.queue = <<>>]
         IN  IF Len(batch) = 0 THEN finallyNextBatch(s2)
             ELSE executeBatch(s2, batch)

\* processNextBatch that leaves the debounce timer alone
processNextBatchKeepsTimer(s) ==
    IF s.processing THEN s
    ELSE LET s1 == [s EXCEPT !.processing = TRUE]
             batch == SubSeq(s1.queue, 1, Min(s.size, Len(s1.queue)))
             s2 == [s1 EXCEPT !.queue =
                        SubSeq(@, Len(batch) + 1, Len(@))]
         IN  IF Len(batch) = 0 THEN finallyNextBatch(s2)
             ELSE executeBatch(s2, batch)

\* processNextBatch taking its batch from the back of the queue
processNextBatchTakesLast(s) ==
    IF s.processing THEN s
    ELSE LET s1 == [s EXCEPT !.processing = TRUE,
                             !.scheduledTimeout = FALSE,
                             !.timeoutPending =
                                 IF s.scheduledTimeout THEN @ - 1 ELSE @]
             n == Min(s.size, Len(s1.queue))
             batch == SubSeq(s1.queue, Len(s1.queue) - n + 1, Len(s1.queue))
             s2 == [s1 EXCEPT !.queue = SubSeq(@, 1, Len(@) - n)]
         IN  IF Len(batch) = 0 THEN finallyNextBatch(s2)
             ELSE executeBatch(s2, batch)

\* processNextBatch up to its first await
processNextBatch(s) ==
    IF s.processing THEN s
    ELSE LET s1 == [s EXCEPT !.processing = TRUE,
                             !.scheduledTimeout = FALSE,
                             !.timeoutPending =
                                 IF s.scheduledTimeout THEN @ - 1 ELSE @]
             batch == SubSeq(s1.queue, 1, Min(s.size, Len(s1.queue)))
             s2 == [s1 EXCEPT !.queue =
                        SubSeq(@, Len(batch) + 1, Len(@))]
         IN  IF Len(batch) = 0 THEN finallyNextBatch(s2)
             ELSE executeBatch(s2, batch)

\* maybeStartBatch that never starts a batch itself: debounce only
maybeStartBatchDebounceOnly(s) ==
    IF s.processing THEN s
    ELSE IF ~s.scheduledTimeout
         THEN [s EXCEPT !.scheduledTimeout = TRUE, !.timeoutPending = @ + 1]
         ELSE s

\* maybeStartBatch that sets a timer without looking at this.scheduledTimeout
maybeStartBatchAlwaysSchedules(s) ==
    IF Len(s.queue) >= s.size /\ ~s.processing THEN processNextBatch(s)
    ELSE IF s.processing THEN s
    ELSE [s EXCEPT !.scheduledTimeout = TRUE, !.timeoutPending = @ + 1]

\* maybeStartBatch that sets the timer while a batch is processing
maybeStartBatchIgnoresProcessing(s) ==
    IF Len(s.queue) >= s.size /\ ~s.processing THEN processNextBatch(s)
    ELSE IF ~s.scheduledTimeout
         THEN [s EXCEPT !.scheduledTimeout = TRUE, !.timeoutPending = @ + 1]
         ELSE s

maybeStartBatch(s) ==
    IF Len(s.queue) >= s.size /\ ~s.processing THEN processNextBatch(s)
    ELSE IF s.processing THEN s
    ELSE IF ~s.scheduledTimeout
         THEN [s EXCEPT !.scheduledTimeout = TRUE, !.timeoutPending = @ + 1]
         ELSE s

\* new promise of translate(); batchFailed: the catch block of the simple
\* batcher has logged the failure of the batch of this request
NewPromise(text, cacheKey, enq, during) ==
    [status |-> "pending", value |-> "", settles |-> 0, text |-> text,
     cacheKey |-> cacheKey, enqueued |-> enq, duringBatch |-> during,
     dropped |-> FALSE, batchFailed |-> FALSE]

\* translate without the cache check of lines 66-69
translateNoCacheCheck(s, text, cacheKey, targetLanguage) ==
    LET request == [id |-> Len(s.promise) + 1, text |-> text,
                    cacheKey |-> cacheKey, targetLanguage |-> targetLanguage]
    IN  maybeStartBatch([s EXCEPT
            !.promise = Append(@, NewPromise(text, cacheKey, TRUE,
                                             s.processing)),
            !.queue = Append(@, request)])

translate(s, text, cacheKey, targetLanguage) ==
    LET id == Len(s.promise) + 1 IN
    IF cacheKey \in DOMAIN s.cache
    THEN [s EXCEPT !.promise = Append(@,
              [NewPromise(text, cacheKey, FALSE, s.processing) EXCEPT
                  !.status = "resolved", !.value = s.cache[cacheKey],
                  !.settles = 1])]
    ELSE LET request == [id |-> id, text |-> text, cacheKey |-> cacheKey,
                         targetLanguage |-> targetLanguage]
             s1 == [s EXCEPT
                      !.promise = Append(@, NewPromise(text, cacheKey, TRUE,
                                                     s.processing)),
                      !.queue = Append(@, request)]
         IN  maybeStartBatch(s1)

\* leaving translateLanguageGroup normally: back in the loop of executeBatch
nextGroup(s, i) ==
    LET b == s.running[i] IN
    IF b.gi < Len(b.groups)
    THEN IF batchThrottleMs > 0
         THEN [s EXCEPT !.running[i] =
                  [b EXCEPT !.gi = b.gi + 1, !.attempt = 0,
                            !.phase = "throttle", !.texts = <<>>]]
         ELSE fetchGroup(s, i, b.gi + 1, 0, 0)
    ELSE [s EXCEPT !.running[i] = [b EXCEPT !.phase = "unwind", !.texts = <<>>]]

\* the answer mapped back by the position of the request in the group
\* instead of the index of its text among the texts sent
RECURSIVE resolveTranslatedByPosition(_, _, _, _)
resolveTranslatedByPosition(s, requests, texts, translations) ==
    IF requests = <<>> THEN s
    ELSE LET s1 == resolveTranslatedByPosition(s, Front(requests), texts,
                                               translations)
             request == Last(requests)
             translation == OrElse(ElementAt(translations, Len(requests) - 1),
                                   request.text)
         IN  resolve([s1 EXCEPT !.cache =
                          CacheSet(@, request.cacheKey, translation)],
                     request, translation)

\* lines 258-279: map the answer back, cache and resolve
RECURSIVE resolveTranslated(_, _, _, _)
resolveTranslated(s, requests, texts, translations) ==
    IF requests = <<>> THEN s
    ELSE LET s1 == resolveTranslated(s, Front(requests), texts, translations)
             request == Last(requests)
             mapped == OrElse(ElementAt(translations,
                                        IndexOf(texts, request.text)),
                              request.text)
             translation == OrElse(mapped, request.text)
         IN  resolve([s1 EXCEPT !.cache =
                          CacheSet(@, request.cacheKey, translation)],
                     request, translation)

\* the fallback written to the cache as if it were a translation
RECURSIVE resolveOriginalCaching(_, _)
resolveOriginalCaching(s, requests) ==
    IF requests = <<>> THEN s
    ELSE LET s1 == resolveOriginalCaching(s, Front(requests))
             request == Last(requests)
         IN  resolve([s1 EXCEPT !.cache =
                          CacheSet(@, request.cacheKey, request.text)],
                     request, request.text)

\* lines 306-309: resolve with the original text
RECURSIVE resolveOriginal(_, _)
resolveOriginal(s, requests) ==
    IF requests = <<>> THEN s
    ELSE resolve(resolveOriginal(s, Front(requests)),
                 Last(requests), Last(requests).text)

\* lines 297-309: after the retry loop; isRateLimitError is what line 302
\* computes from the message of lastError
groupFailed(s, i, isRateLimitError, onError) ==
    LET b == [s.running[i] EXCEPT
                 !.failed = @ \cup {s.running[i].gi},
                 !.onErrorCalls = IF s.recording
                                  THEN Append(@, isRateLimitError) ELSE @]
        s1 == [s EXCEPT !.running[i] = b]
    IN  IF onError = "throws"
        THEN [s1 EXCEPT !.running[i] =
                 [b EXCEPT !.phase = "unwind", !.threw = TRUE, !.texts = <<>>]]
        ELSE nextGroup(resolveOriginal(s1, b.groups[b.gi].requests), i)

\* the catch block of the retry loop; rateMsg: the message contains
\* '429' or 'rate limit'
catchBlock(s, i, rateMsg, onError) ==
    LET b == s.running[i] IN
    IF b.attempt = maxRetries THEN groupFailed(s, i, rateMsg, onError)
    ELSE IF ~rateMsg THEN groupFailed(s, i, rateMsg, onError)
    ELSE fetchGroup(s, i, b.gi, b.attempt + 1, 0)

\* translateLanguageGroup resumed with the outcome of its fetch
translateLanguageGroup(s, i, outcome) ==
    LET answer == IF outcome.kind = "throw" /\ outcome.rateMsg
                  THEN "throwRateLimit" ELSE outcome.kind
        b == IF ~s.recording THEN s.running[i]
             ELSE [s.running[i] EXCEPT
                      !.answers = Append(@, answer),
                      !.translations = IF outcome.kind = "ok"
                                       THEN outcome.translations ELSE @]
        s1 == [s EXCEPT !.running[i] = b]
    IN
    CASE outcome.kind = "ok" ->
           nextGroup(resolveTranslated(s1, b.groups[b.gi].requests, b.texts,
                                       outcome.translations), i)
      [] outcome.kind = "status429" ->
           IF b.attempt < maxRetries
           THEN [s1 EXCEPT !.running[i] =
                    [b EXCEPT !.phase = "backoff",
                              !.wait = getBackoffDelay(b.attempt,
                                                       outcome.retryAfter)]]
           ELSE catchBlock(s1, i, TRUE, outcome.onError)
      [] outcome.kind = "statusError" -> catchBlock(s1, i, FALSE, outcome.onError)
      [] outcome.kind = "throw" -> catchBlock(s1, i, outcome.rateMsg, outcome.onError)

\* clear marking the queued requests as dropped but keeping them queued
clearKeepsQueue(s) ==
    [s EXCEPT !.scheduledTimeout = FALSE,
              !.timeoutPending = IF s.scheduledTimeout THEN @ - 1 ELSE @,
              !.promise = [p \in DOMAIN @ |->
                  IF \E k \in DOMAIN s.queue : s.queue[k].id = p
                  THEN [@[p] EXCEPT !.dropped = TRUE] ELSE @[p]]]

\* clear(); the promises of the requests it takes from the queue are
\* marked dropped, and when recording is on the running execution is
\* marked as having seen a clear()
clear(s) ==
    [s EXCEPT !.scheduledTimeout = FALSE,
              !.timeoutPending = IF s.scheduledTimeout THEN @ - 1 ELSE @,
              !.queue = <<>>,
              !.promise = [p \in DOMAIN @ |->
                  IF \E k \in DOMAIN s.queue : s.queue[k].id = p
                  THEN [@[p] EXCEPT !.dropped = TRUE] ELSE @[p]],
              !.running = [i \in DOMAIN @ |->
                  IF s.recording THEN [@[i] EXCEPT !.cleared = TRUE]
                  ELSE @[i]]]

\* getStats()
getStats(s) ==
    [queueSize |-> Len(s.queue), processing |-> s.processing,
     cacheSize |-> Cardinality(DOMAIN s.cache),
     scheduled |-> s.scheduledTimeout]

\* what one fetch can come back with: an array as long as the texts sent
\* ("" for an empty or missing element) or an empty array
Answers(n) ==
    {t \in UNION {[1..m -> {Translated[k] : k \in 1..n} \cup {""}] : m \in {0, n}} :
        \A k \in DOMAIN t : t[k] \in {Translated[k], ""}}

\* how the fetch ends, and for a failure what onError does if it is called:
\* an answer, a 429 status with or without Retry-After, another error
\* status, or an exception (thrown by fetch or while reading the body)
Outcomes(n) ==
    {[kind |-> "ok", translations |-> t] : t \in Answers(n)}
    \cup {[kind |-> "status429", retryAfter |-> r, onError |-> e] :
              r \in {0, MaxRetryAfter}, e \in OnErrorBehaviours}
    \cup {[kind |-> "statusError", onError |-> e] : e \in OnErrorBehaviours}
    \cup {[kind |-> "throw", rateMsg |-> m, onError |-> e] :
              m \in BOOLEAN, e \in OnErrorBehaviours}

Rich == variant = "rich"

Translate(text, cacheKey, targetLanguage) ==
    /\ Rich
    /\ Len(promise) < MaxCalls
    /\ Becomes(translate(State, text, cacheKey, targetLanguage))
    /\ UNCHANGED <<variant, apiKey, recording, size, backoffVars, routeVars>>

\* the debounce callback of maybeStartBatch
FlushTimeout ==
    /\ Rich
    /\ timeoutPending > 0
    /\ Becomes(processNextBatch([State EXCEPT !.timeoutPending = @ - 1,
                                              !.scheduledTimeout = FALSE]))
    /\ UNCHANGED <<variant, apiKey, recording, size, backoffVars, routeVars>>

\* the zero-delay callback set by the finally block
RetriggerTimeout ==
    /\ Rich
    /\ retrigger > 0
    /\ Becomes(processNextBatch([State EXCEPT !.retrigger = @ - 1]))
    /\ UNCHANGED <<variant, apiKey, recording, size, backoffVars, routeVars>>

FetchReturns(i) ==
    /\ Rich
    /\ i \in DOMAIN running
    /\ running[i].phase = "call"
    /\ \E outcome \in Outcomes(Len(running[i].texts)) :
           Becomes(translateLanguageGroup(State, i, outcome))
    /\ UNCHANGED <<variant, apiKey, recording, size, backoffVars, routeVars>>

\* sleep(delay) of the retry loop is over
BackoffElapsed(i) ==
    /\ Rich
    /\ i \in DOMAIN running
    /\ running[i].phase = "backoff"
    /\ Becomes(fetchGroup(State, i, running[i].gi, running[i].attempt + 1,
                          running[i].wait))
    /\ UNCHANGED <<variant, apiKey, recording, size, backoffVars, routeVars>>

\* sleep(batchThrottleMs) of executeBatch is over
ThrottleElapsed(i) ==
    /\ Rich
    /\ i \in DOMAIN running
    /\ running[i].phase = "throttle"
    /\ Becomes(fetchGroup(State, i, running[i].gi, 0, batchThrottleMs))
    /\ UNCHANGED <<variant, apiKey, recording, size, backoffVars, routeVars>>

\* executeBatch has returned or thrown: catch and finally of processNextBatch
BatchSettles(i) ==
    /\ Rich
    /\ i \in DOMAIN running
    /\ running[i].phase = "unwind"
    /\ Becomes(finallyNextBatch([State EXCEPT !.running = RemoveAt(@, i)]))
    /\ UNCHANGED <<variant, apiKey, recording, size, backoffVars, routeVars>>

BurstTranslate(n, text, cacheKey, targetLanguage) ==
    /\ Rich
    /\ Len(promise) < MaxBurst
    /\ n = Len(promise) + 1
    /\ Becomes(translate(State, text, cacheKey, targetLanguage))
    /\ UNCHANGED <<variant, apiKey, recording, size, backoffVars, routeVars>>

\* a constructor that accepts every maxBatchSize
constructorUnchecked(maxBatchSizeArg) ==
    [threw |-> FALSE, queue |-> <<>>, processing |-> FALSE,
     scheduledTimeout |-> FALSE]

\* the constructor and the field initialisers: it throws for a
\* maxBatchSize outside the interval, else the instance starts with an
\* empty queue, not processing and without a scheduled timeout
constructor(maxBatchSizeArg) ==
    IF maxBatchSizeArg < MinBatchSize \/ maxBatchSizeArg > MaxBatchSizeLimit
    THEN [threw |-> TRUE]
    ELSE [threw |-> FALSE, queue |-> <<>>, processing |-> FALSE,
          scheduledTimeout |-> FALSE]

\* new TranslationBatcher(batchDelay, size, cache, ...)
Construct ==
    /\ variant = "unbuilt"
    /\ LET made == constructor(size) IN
       IF made.threw
       THEN /\ variant' = "threw"
            /\ UNCHANGED <<queue, processing, scheduledTimeout>>
       ELSE /\ variant' = "rich"
            /\ queue' = made.queue
            /\ processing' = made.processing
            /\ scheduledTimeout' = made.scheduledTimeout
    /\ UNCHANGED <<apiKey, timer, timeoutPending, retrigger, cache, running,
                   promise, nBatches, recording, size, backoffVars, routeVars>>

RecordedTranslate(text, cacheKey, targetLanguage) ==
    /\ Rich
    /\ Len(promise) < MaxRecorded
    /\ Becomes(translate(State, text, cacheKey, targetLanguage))
    /\ UNCHANGED <<variant, apiKey, recording, size, backoffVars, routeVars>>

Clear ==
    /\ Rich
    /\ Becomes(clear(State))
    /\ UNCHANGED <<variant, apiKey, recording, size, backoffVars, routeVars>>

\* ============================================== simple TranslationBatcher
Simple == variant \in {"simpleXai", "simpleApi"}

\* only the first item of the batch is rejected
RECURSIVE rejectFirst(_, _)
rejectFirst(s, batch) ==
    IF batch = <<>> THEN s ELSE reject(s, batch[1])

\* batch.forEach((item) => item.reject(error))
RECURSIVE rejectAll(_, _)
rejectAll(s, batch) ==
    IF batch = <<>> THEN s
    ELSE reject(rejectAll(s, Front(batch)), Last(batch))

\* the catch block of processBatch: the failure is logged, every item of
\* the batch is rejected
catchBatch(s, batch) ==
    rejectAll([s EXCEPT !.promise = [k \in DOMAIN @ |->
                  IF \E j \in DOMAIN batch : batch[j].id = k
                  THEN [@[k] EXCEPT !.batchFailed = TRUE] ELSE @[k]]],
              batch)

\* batch.forEach((item, index) => item.resolve(translations[index] || item.text))
RECURSIVE resolveEach(_, _, _)
resolveEach(s, batch, translations) ==
    IF batch = <<>> THEN s
    ELSE resolve(resolveEach(s, Front(batch), translations), Last(batch),
                 OrElse(ElementAt(translations, Len(batch) - 1),
                        Last(batch).text))

RECURSIVE scheduleBatch(_)
RECURSIVE processBatch(_)

\* the finally block of processBatch
finallyBatch(s) ==
    LET s1 == [s EXCEPT !.processing = FALSE] IN
    IF Len(s1.queue) > 0 THEN scheduleBatch(s1) ELSE s1

\* processBatch up to its first await; without an API key the direct
\* variant throws before it awaits anything
processBatch(s) ==
    IF s.processing \/ Len(s.queue) = 0 THEN s
    ELSE LET batch == SubSeq(s.queue, 1, Min(s.size, Len(s.queue)))
             s1 == [s EXCEPT !.processing = TRUE,
                             !.queue = SubSeq(@, Len(batch) + 1, Len(@)),
                             !.nBatches = @ + 1]
             b == [requests |-> batch,
                   groups |-> <<[targetLanguage |-> "zh-CN",
                                 requests |-> batch]>>,
                   gi |-> 1, attempt |-> 0, phase |-> "call", wait |-> 0,
                   texts |-> [k \in DOMAIN batch |-> batch[k].text],
                   dispatched |-> <<"zh-CN">>, threw |-> FALSE,
                   failed |-> {}, lg |-> 1, fetches |-> 1,
                   answers |-> <<>>, onErrorCalls |-> <<>>,
                   translations |-> <<>>, cleared |-> FALSE]
         IN  IF variant = "simpleXai" /\ ~apiKey
             THEN finallyBatch(catchBatch(s1, batch))
             ELSE [s1 EXCEPT !.running = Append(@, b)]

scheduleBatch(s) ==
    IF s.processing THEN s
    ELSE IF Len(s.queue) >= s.size
         THEN processBatch([s EXCEPT !.timeoutPending =
                                IF s.timer /\ @ > 0 THEN @ - 1 ELSE @])
         ELSE IF ~s.timer
              THEN [s EXCEPT !.timer = TRUE, !.timeoutPending = @ + 1]
              ELSE s

translateSimple(s, text) ==
    LET request == [id |-> Len(s.promise) + 1, text |-> text,
                    cacheKey |-> "", targetLanguage |-> "zh-CN"]
    IN  scheduleBatch([s EXCEPT
            !.promise = Append(@, NewPromise(text, "", TRUE, s.processing)),
            !.queue = Append(@, request)])

\* processBatch resumed with the outcome of its fetch, to its end
processBatchResumed(s, i, outcome) ==
    LET b == s.running[i]
        s1 == IF outcome.kind = "ok"
              THEN resolveEach(s, b.requests, outcome.translations)
              ELSE catchBatch(s, b.requests)
    IN  finallyBatch([s1 EXCEPT !.running = RemoveAt(@, i)])

\* a non-OK response, a thrown fetch, an empty or unparsable body
SimpleOutcomes(n) ==
    {[kind |-> "ok", translations |-> t] : t \in Answers(n)}
    \cup {[kind |-> "error"]}

TranslateSimple(text) ==
    /\ Simple
    /\ Len(promise) < MaxCalls
    /\ Becomes(translateSimple(State, text))
    /\ UNCHANGED <<variant, apiKey, recording, size, backoffVars, routeVars>>

BurstTranslateSimple(text) ==
    /\ Simple
    /\ Len(promise) < MaxBurst
    /\ Becomes(translateSimple(State, text))
    /\ UNCHANGED <<variant, apiKey, recording, size, backoffVars, routeVars>>

\* the debounce callback of scheduleBatch
TimerFires ==
    /\ Simple
    /\ timeoutPending > 0
    /\ Becomes(processBatch([State EXCEPT !.timeoutPending = @ - 1,
                                          !.timer = FALSE]))
    /\ UNCHANGED <<variant, apiKey, recording, size, backoffVars, routeVars>>

SimpleFetchReturns(i) ==
    /\ Simple
    /\ i \in DOMAIN running
    /\ running[i].phase = "call"
    /\ \E outcome \in SimpleOutcomes(Len(running[i].texts)) :
           Becomes(processBatchResumed(State, i, outcome))
    /\ UNCHANGED <<variant, apiKey, recording, size, backoffVars, routeVars>>

\* no retry loop is followed by itself, no request is with the handler
NoRetryLoop ==
    /\ loopAttempt = 0
    /\ retryAfterHeader = [kind |-> "none", seconds |-> 0]
    /\ delay = 0
    /\ sleeping = FALSE

NoHandler ==
    /\ requestTexts = <<>>
    /\ index = 0
    /\ results = <<>>
    /\ workers = <<>>
    /\ calls = <<>>
    /\ exact = TRUE
    /\ response = "none"

Init ==
    /\ variant \in Variants
    /\ apiKey \in (IF variant = "simpleXai" THEN BOOLEAN ELSE {TRUE})
    /\ queue = <<>>
    /\ processing = FALSE
    /\ scheduledTimeout = FALSE
    /\ timer = FALSE
    /\ timeoutPending = 0
    /\ retrigger = 0
    /\ cache = <<>>
    /\ running = <<>>
    /\ promise = <<>>
    /\ nBatches = 0
    /\ recording = FALSE
    /\ size = maxBatchSize
    /\ NoRetryLoop
    /\ NoHandler

Next ==
    \/ \E r \in Requests : Translate(r.text, r.cacheKey, r.targetLanguage)
    \/ FlushTimeout
    \/ RetriggerTimeout
    \/ \E i \in DOMAIN running : FetchReturns(i)
    \/ \E i \in DOMAIN running : BackoffElapsed(i)
    \/ \E i \in DOMAIN running : ThrottleElapsed(i)
    \/ \E i \in DOMAIN running : BatchSettles(i)
    \/ Clear
    \/ \E text \in Texts : TranslateSimple(text)
    \/ TimerFires
    \/ \E i \in DOMAIN running : SimpleFetchReturns(i)

Spec == Init /\ [][Next]_vars

\* more calls, all different and all for one language, and no clear(): the
\* scheduling under load
NextBurst ==
    \/ \E r \in BurstRequests :
           BurstTranslate(r.n, r.text, r.cacheKey, r.targetLanguage)
    \/ FlushTimeout
    \/ RetriggerTimeout
    \/ \E i \in DOMAIN running : FetchReturns(i)
    \/ \E i \in DOMAIN running : BackoffElapsed(i)
    \/ \E i \in DOMAIN running : BatchSettles(i)
    \/ \E text \in BurstTexts : BurstTranslateSimple(text)
    \/ TimerFires
    \/ \E i \in DOMAIN running : SimpleFetchReturns(i)

SpecBurst == Init /\ [][NextBurst]_vars

\* a rich batcher whose language groups are recorded: what each group does
\* with the answers of the network, and what clear() leaves alone
InitRetry ==
    /\ variant = "rich"
    /\ apiKey = TRUE
    /\ queue = <<>>
    /\ processing = FALSE
    /\ scheduledTimeout = FALSE
    /\ timer = FALSE
    /\ timeoutPending = 0
    /\ retrigger = 0
    /\ cache = <<>>
    /\ running = <<>>
    /\ promise = <<>>
    /\ nBatches = 0
    /\ recording = TRUE
    /\ size = maxBatchSize
    /\ NoRetryLoop
    /\ NoHandler

NextRetry ==
    \/ \E r \in RecordedRequests :
           RecordedTranslate(r.text, r.cacheKey, r.targetLanguage)
    \/ FlushTimeout
    \/ RetriggerTimeout
    \/ \E i \in DOMAIN running : FetchReturns(i)
    \/ \E i \in DOMAIN running : BackoffElapsed(i)
    \/ \E i \in DOMAIN running : ThrottleElapsed(i)
    \/ \E i \in DOMAIN running : BatchSettles(i)
    \/ Clear

SpecRetry == InitRetry /\ [][NextRetry]_vars

\* a rich batcher without the record, built with maxBatchSize or with one
\* more, so that a second request may join the queue below the ceiling:
\* when batches start and timers are set
InitSched ==
    /\ variant = "rich"
    /\ apiKey = TRUE
    /\ queue = <<>>
    /\ processing = FALSE
    /\ scheduledTimeout = FALSE
    /\ timer = FALSE
    /\ timeoutPending = 0
    /\ retrigger = 0
    /\ cache = <<>>
    /\ running = <<>>
    /\ promise = <<>>
    /\ nBatches = 0
    /\ recording = FALSE
    /\ size \in {maxBatchSize, maxBatchSize + 1}
    /\ NoRetryLoop
    /\ NoHandler

SpecSched == InitSched /\ [][NextRetry]_vars

\* before the constructor has run there is no instance: the fields it
\* initialises are given values that no new instance has, so that what the
\* constructor assigns shows
InitConstruct ==
    /\ variant = "unbuilt"
    /\ size \in ConstructorSizes
    /\ apiKey = TRUE
    /\ queue = <<[id |-> 0, text |-> "", cacheKey |-> "",
                  targetLanguage |-> ""]>>
    /\ processing = TRUE
    /\ scheduledTimeout = TRUE
    /\ timer = FALSE
    /\ timeoutPending = 0
    /\ retrigger = 0
    /\ cache = <<>>
    /\ running = <<>>
    /\ promise = <<>>
    /\ nBatches = 0
    /\ recording = FALSE
    /\ NoRetryLoop
    /\ NoHandler

NextConstruct ==
    \/ Construct
    \/ \E r \in RecordedRequests :
           RecordedTranslate(r.text, r.cacheKey, r.targetLanguage)
    \/ FlushTimeout
    \/ RetriggerTimeout
    \/ \E i \in DOMAIN running : FetchReturns(i)
    \/ \E i \in DOMAIN running : BackoffElapsed(i)
    \/ \E i \in DOMAIN running : ThrottleElapsed(i)
    \/ \E i \in DOMAIN running : BatchSettles(i)

SpecConstruct == InitConstruct /\ [][NextConstruct]_vars

\* ===================================================== the retry delay
\* the Retry-After headers a 429 response is tried with: none, an HTTP date,
\* a number of seconds
RetryAfterHeaders ==
    {[kind |-> "none", seconds |-> 0], [kind |-> "date", seconds |-> 0]}
    \cup {[kind |-> "seconds", seconds |-> n] : n \in 0..MaxRetryAfter}

\* retryAfter ? parseInt(retryAfter, 10) : undefined, where 0 stands for
\* the falsy results: undefined for no header, NaN for a date, 0 for "0"
parseRetryAfter(header) ==
    IF header.kind = "seconds" THEN header.seconds ELSE 0

\* lines 236-246 of a batcher that allows MaxAttempt retries: the attempt is
\* answered with status 429, the delay is computed and the sleep begins
RateLimited(header) ==
    /\ variant = "retryLoop"
    /\ ~sleeping
    /\ loopAttempt < MaxAttempt
    /\ retryAfterHeader' = header
    /\ delay' = getBackoffDelay(loopAttempt, parseRetryAfter(header))
    /\ sleeping' = TRUE
    /\ UNCHANGED <<batcherVars, loopAttempt, routeVars>>

\* lines 246-247 and the loop header: the sleep is over, the next attempt
\* begins
Continue ==
    /\ variant = "retryLoop"
    /\ sleeping
    /\ sleeping' = FALSE
    /\ loopAttempt' = loopAttempt + 1
    /\ UNCHANGED <<batcherVars, retryAfterHeader, delay, routeVars>>

\* no batcher instance takes part
NoBatcher ==
    /\ apiKey = TRUE
    /\ queue = <<>>
    /\ processing = FALSE
    /\ scheduledTimeout = FALSE
    /\ timer = FALSE
    /\ timeoutPending = 0
    /\ retrigger = 0
    /\ cache = <<>>
    /\ running = <<>>
    /\ promise = <<>>
    /\ nBatches = 0
    /\ recording = FALSE
    /\ size = maxBatchSize

InitBackoff ==
    /\ variant = "retryLoop"
    /\ NoBatcher
    /\ NoRetryLoop
    /\ NoHandler

NextBackoff ==
    \/ \E header \in RetryAfterHeaders : RateLimited(header)
    \/ Continue

SpecBackoff == InitBackoff /\ [][NextBackoff]_vars

\* ============================================ the /api/translate handler
\* chunk(arr, size), the size written chunkSize
chunk(arr, chunkSize) ==
    [c \in 1..((Len(arr) + chunkSize - 1) \div chunkSize) |->
        SubSeq(arr, (c - 1) * chunkSize + 1, Min(c * chunkSize, Len(arr)))]

\* const chunks = chunk(texts, CHUNK_SIZE)
chunks == chunk(requestTexts, CHUNK_SIZE)

\* arr[j] = v on a JS array, j counted from 0: an array shorter than j + 1
\* grows; an element never written is a hole, read as <<>>
ArraySet(arr, j, v) ==
    [k \in 1..(IF j + 1 > Len(arr) THEN j + 1 ELSE Len(arr)) |->
        IF k = j + 1 THEN v
        ELSE IF k \in DOMAIN arr THEN arr[k] ELSE <<>>]

\* the answer written from the index of the chunk instead of its offset
RECURSIVE placeBackAtChunkIndex(_, _, _)
placeBackAtChunkIndex(res, myIndex, translated) ==
    IF translated = <<>> THEN res
    ELSE ArraySet(placeBackAtChunkIndex(res, myIndex, Front(translated)),
                  myIndex + (Len(translated) - 1), Last(translated))

\* lines 117-120: results[start + i] = translated[i] for every i
RECURSIVE placeBack(_, _, _)
placeBack(res, myIndex, translated) ==
    IF translated = <<>> THEN res
    ELSE ArraySet(placeBack(res, myIndex, Front(translated)),
                  myIndex * CHUNK_SIZE + (Len(translated) - 1),
                  Last(translated))

\* what the provider makes of a text
translation(text) == <<"translated", text>>

\* what translateBatch may return for the texts of a chunk: a translation
\* for each text, one element less, or one more
ProviderAnswers(chunkTexts) ==
    LET full == [k \in DOMAIN chunkTexts |-> translation(chunkTexts[k])] IN
    {full, Front(full), Append(full, <<"extra">>)}

\* lines 73-104 and 124 for a request of n texts, the p-th of which is
\* written p: the chunks are cut, results is allocated, every worker is
\* started and waits for its jitter
Handle(n) ==
    /\ variant = "handler"
    /\ requestTexts = <<>>
    /\ requestTexts' = [p \in 1..n |-> p]
    /\ results' = [p \in 1..n |-> <<>>]
    /\ index' = 0
    /\ workers' = [w \in 1..Min(CONCURRENCY, Len(chunk(requestTexts', CHUNK_SIZE)))
                      |-> [pc |-> "jitter", myIndex |-> 0]]
    /\ calls' = [c \in DOMAIN chunk(requestTexts', CHUNK_SIZE) |-> 0]
    /\ exact' = TRUE
    /\ response' = "none"
    /\ UNCHANGED <<batcherVars, backoffVars>>

\* lines 109-115: worker w at the head of its loop takes the next chunk and
\* calls the provider, or ends
WorkerLoop(w) ==
    IF index < Len(chunks)
    THEN /\ workers' = [workers EXCEPT ![w] = [pc |-> "call", myIndex |-> index]]
         /\ index' = index + 1
         /\ calls' = [calls EXCEPT ![index + 1] = @ + 1]
    ELSE /\ workers' = [workers EXCEPT ![w] = [@ EXCEPT !.pc = "done"]]
         /\ UNCHANGED <<index, calls>>

\* line 107: the jitter of worker w is over
JitterElapsed(w) ==
    /\ variant = "handler"
    /\ w \in DOMAIN workers
    /\ workers[w].pc = "jitter"
    /\ WorkerLoop(w)
    /\ UNCHANGED <<batcherVars, backoffVars, requestTexts, results, exact,
                   response>>

\* lines 111-121: the provider call of worker w returns, the answer is
\* placed and the loop goes on
ProviderReturns(w) ==
    /\ variant = "handler"
    /\ w \in DOMAIN workers
    /\ workers[w].pc = "call"
    /\ \E translated \in ProviderAnswers(chunks[workers[w].myIndex + 1]) :
           /\ results' = placeBack(results, workers[w].myIndex, translated)
           /\ exact' = (exact /\ Len(translated) =
                                     Len(chunks[workers[w].myIndex + 1]))
    /\ WorkerLoop(w)
    /\ UNCHANGED <<batcherVars, backoffVars, requestTexts, response>>

\* the provider call of worker w throws: the worker's promise rejects,
\* Promise.all rejects with the first such rejection and the catch block
\* of the handler answers with an error (lines 125, 132-157); the other
\* workers go on
ProviderThrows(w) ==
    /\ variant = "handler"
    /\ w \in DOMAIN workers
    /\ workers[w].pc = "call"
    /\ workers' = [workers EXCEPT ![w] = [@ EXCEPT !.pc = "threw"]]
    /\ response' = IF response = "none" THEN "error" ELSE response
    /\ UNCHANGED <<batcherVars, backoffVars, requestTexts, index, results,
                   calls, exact>>

\* lines 125-131: every worker has ended, the handler answers with results
Respond ==
    /\ variant = "handler"
    /\ response = "none"
    /\ workers # <<>>
    /\ \A w \in DOMAIN workers : workers[w].pc = "done"
    /\ response' = "translations"
    /\ UNCHANGED <<batcherVars, backoffVars, requestTexts, index, results,
                   workers, calls, exact>>

InitRoute ==
    /\ variant = "handler"
    /\ NoBatcher
    /\ NoRetryLoop
    /\ NoHandler

NextRoute ==
    \/ \E n \in 1..MaxTexts : Handle(n)
    \/ \E w \in DOMAIN workers : JitterElapsed(w)
    \/ \E w \in DOMAIN workers : ProviderReturns(w)
    \/ \E w \in DOMAIN workers : ProviderThrows(w)
    \/ Respond

SpecRoute == InitRoute /\ [][NextRoute]_vars

\* ================================================================ claims

\* network calls in flight
InFlight == Cardinality({i \in DOMAIN running : running[i].phase = "call"})

\* nothing is left that the batcher would do by itself
Idle == ~processing /\ running = <<>> /\ timeoutPending = 0 /\ retrigger = 0

\* requests that were spliced into a batch
Dispatched ==
    Cardinality({k \in DOMAIN promise :
        /\ promise[k].enqueued
        /\ ~promise[k].dropped
        /\ \A j \in DOMAIN queue : queue[j].id # k})

LanguagesOf(batch) == {batch[k].targetLanguage : k \in DOMAIN batch}
FirstIndex(batch, lang) ==
    CHOOSE k \in DOMAIN batch :
        /\ batch[k].targetLanguage = lang
        /\ \A j \in 1..(k - 1) : batch[j].targetLanguage # lang
FirstTextIndex(requests, text) ==
    CHOOSE k \in DOMAIN requests :
        /\ requests[k].text = text
        /\ \A j \in 1..(k - 1) : requests[j].text # text

\* C1: in both variants at most one batch executes at any time, it executes
\* under the processing flag, and at most one network call is in flight.
C1_MutualExclusion ==
    /\ Len(running) <= 1
    /\ InFlight <= 1
    /\ running # <<>> => processing

\* a zero-delay re-trigger is due while a batch started by the full-queue
\* path is in flight and a further request waits in the queue
C1_Witness ==
    /\ Rich
    /\ Len(running) = 1
    /\ running[1].phase = "call"
    /\ retrigger > 0
    /\ Len(queue) > 0

\* C2: every enqueued request of the rich batcher is settled exactly once:
\* never twice, and once the batcher has nothing left to do every enqueued
\* request has been settled.
C2_EverySettledOnce ==
    /\ \A k \in DOMAIN promise : promise[k].settles <= 1
    /\ (Rich /\ Idle) =>
           \A k \in DOMAIN promise :
               promise[k].enqueued => promise[k].settles = 1

\* C3: unless clear() took a request from the queue (any other call of
\* clear() changes nothing), once the rich batcher has nothing left to do
\* every request that was enqueued while a batch was processing has been
\* dispatched and resolved.
C3_QueuedDuringBatchResolved ==
    (Rich /\ Idle /\ \A k \in DOMAIN promise : ~promise[k].dropped) =>
        \A k \in DOMAIN promise :
            (promise[k].enqueued /\ promise[k].duringBatch) =>
                /\ \A j \in DOMAIN queue : queue[j].id # k
                /\ promise[k].status = "resolved"

\* C4: once the simple batcher has nothing left to do (no batch in flight,
\* no timer due) every request enqueued while a batch was in flight has
\* settled.
C4_SimpleDrain ==
    (Simple /\ Idle) =>
        \A k \in DOMAIN promise :
            promise[k].duringBatch => promise[k].status # "pending"

\* C5: the rich batcher rejects no promise, and every request of a language
\* group that ended in failure is resolved with its own source text.
C5_FallbackToOriginal ==
    Rich =>
        /\ \A k \in DOMAIN promise : promise[k].status # "rejected"
        /\ \A i \in DOMAIN running : \A g \in running[i].failed :
               \A j \in DOMAIN running[i].groups[g].requests :
                   LET request == running[i].groups[g].requests[j] IN
                   /\ promise[request.id].status = "resolved"
                   /\ promise[request.id].value = request.text

\* C6: a translate() call whose cacheKey is in the cache returns the cached
\* value and changes neither the queue, the processing flag, the timer, the
\* cache nor the running batch, and starts no network call.
C6_CacheHitFrame ==
    [][(/\ Rich
        /\ Len(promise') = Len(promise) + 1
        /\ promise'[Len(promise')].cacheKey \in DOMAIN cache)
       => (/\ promise'[Len(promise')].status = "resolved"
           /\ promise'[Len(promise')].value =
                  cache[promise'[Len(promise')].cacheKey]
           /\ UNCHANGED <<queue, processing, scheduledTimeout, timeoutPending,
                          retrigger, cache, running, nBatches>>)]_vars

\* a call was served from the cache while a batch was processing and the
\* queue held a request
C6_Witness ==
    /\ Rich
    /\ \E k \in DOMAIN promise :
           /\ ~promise[k].enqueued
           /\ promise[k].duringBatch
           /\ promise[k].status = "resolved"
    /\ Len(queue) > 0

\* C7: the cache only grows: an entry once present stays, with its value.
C7_CacheOnlyAdds ==
    [][\A k \in DOMAIN cache : k \in DOMAIN cache' /\ cache'[k] = cache[k]]_vars

\* C8: in both variants no batch holds more than maxBatchSize requests, no
\* network call carries more than maxBatchSize texts, and the requests
\* dispatched so far took at least ceil(n / maxBatchSize) batches.
C8_BatchCeiling ==
    /\ \A i \in DOMAIN running :
           /\ Len(running[i].requests) \in 1..size
           /\ Len(running[i].texts) <= size
    /\ Dispatched <= nBatches * size

\* more requests than one batch holds were dispatched, the batch in flight
\* is a full one taken from a longer queue
C8_Witness ==
    /\ Dispatched > size
    /\ nBatches >= 2
    /\ \E i \in DOMAIN running :
           /\ Len(running[i].requests) = size
           /\ running[i].phase = "call"
    /\ Len(queue) > 0

C10_GroupsInOrder ==
    Rich =>
        /\ InFlight <= 1
        /\ \A i \in DOMAIN running :
               LET b == running[i]
                   langs == LanguagesOf(b.requests)
               IN  /\ \A x \in DOMAIN b.dispatched :
                          /\ b.dispatched[x] \in langs
                          /\ Cardinality({l \in langs :
                                 FirstIndex(b.requests, l) <=
                                 FirstIndex(b.requests, b.dispatched[x])}) = x
                   /\ (b.phase = "call" /\ b.gi > 1 /\ b.attempt = 0)
                          => b.wait = batchThrottleMs
                   /\ b.phase = "unwind"
                          => Len(b.dispatched) = Cardinality(langs)

\* the language group that execution b records is over: the batch waits
\* before its next group or is leaving executeBatch
GroupOver(b) == b.phase \in {"throttle", "unwind"}

\* the requests of the recorded group
Recorded(b) == b.groups[b.lg].requests

\* 0-based rank of a text among the distinct texts of the requests, taken
\* in order of first occurrence
UniqueIndex(requests, text) ==
    Cardinality({k \in DOMAIN requests :
        /\ k = FirstTextIndex(requests, requests[k].text)
        /\ k < FirstTextIndex(requests, text)})

ResolvedWithOriginal(requests) ==
    \A j \in DOMAIN requests :
        /\ promise[requests[j].id].status = "resolved"
        /\ promise[requests[j].id].value = requests[j].text

\* C11: a language group of the rich batcher whose every network attempt was
\* answered with status 429 is over only after exactly 1 + maxRetries
\* attempts, and then every request of the group is resolved with its own
\* source text and onError was called exactly once, with isRateLimitError
\* true.
C11_RateLimitExhausted ==
    \A i \in DOMAIN running :
        LET b == running[i] IN
        (/\ GroupOver(b)
         /\ b.answers # <<>>
         /\ \A k \in DOMAIN b.answers : b.answers[k] = "status429")
        => /\ b.fetches = 1 + maxRetries
           /\ b.onErrorCalls = <<TRUE>>
           /\ ResolvedWithOriginal(Recorded(b))

\* C12: an attempt of a language group that fails with another status than
\* 429 or with an exception that carries no rate-limit message is the last
\* attempt of the group (the only one if it is the first): the group is over
\* at once, onError was called once with isRateLimitError false, and every
\* request of the group is resolved with its own source text.
C12_NonRetryable ==
    \A i \in DOMAIN running :
        LET b == running[i] IN
        /\ \A k \in DOMAIN b.answers :
               b.answers[k] \in {"statusError", "throw"} => k = Len(b.answers)
        /\ (b.answers # <<>> /\ Last(b.answers) \in {"statusError", "throw"})
           => /\ GroupOver(b)
              /\ b.fetches = Len(b.answers)
              /\ b.onErrorCalls = <<FALSE>>
              /\ ResolvedWithOriginal(Recorded(b))

\* C13: when a language group is answered with status 429 j times
\* (j <= maxRetries) and then with a translation, j + 1 attempts were made,
\* no attempt was in flight during a backoff wait and every retry followed a
\* wait of the computed, positive backoff; every request of the group is
\* resolved with the translation, the cache holds it under the request's
\* cacheKey, and onError was not called.
C13_RetryThenSuccess ==
    \A i \in DOMAIN running :
        LET b == running[i] IN
        /\ b.phase = "backoff" =>
               /\ b.fetches = Len(b.answers)
               /\ Last(b.answers) = "status429"
               /\ b.wait > 0
        /\ (b.phase = "call" /\ b.answers # <<>>
                /\ Last(b.answers) = "status429")
           => /\ b.wait > 0
              /\ \E r \in 0..MaxRetryAfter :
                     b.wait = IF r > 0 THEN r * 1000
                              ELSE Min(1000 * 2 ^ (Len(b.answers) - 1), 10000)
        /\ (/\ GroupOver(b)
            /\ b.answers # <<>>
            /\ Last(b.answers) = "ok"
            /\ \A k \in 1..(Len(b.answers) - 1) : b.answers[k] = "status429")
           => /\ b.fetches = Len(b.answers)
              /\ Len(b.answers) - 1 <= maxRetries
              /\ b.onErrorCalls = <<>>
              /\ b.lg \notin b.failed
              /\ \A j \in DOMAIN Recorded(b) :
                     LET request == Recorded(b)[j]
                         answer == ElementAt(b.translations,
                                       UniqueIndex(Recorded(b), request.text))
                         value == IF answer # "" THEN answer ELSE request.text
                     IN  /\ promise[request.id].status = "resolved"
                         /\ promise[request.id].value = value
                         /\ request.cacheKey \in DOMAIN cache
                         /\ cache[request.cacheKey] = value

\* a group was answered 429 as often as retries are allowed and then
\* translated: its request holds the translation
C13_Witness ==
    \E i \in DOMAIN running :
        LET b == running[i] IN
        /\ GroupOver(b)
        /\ Len(b.answers) = maxRetries + 1
        /\ Last(b.answers) = "ok"
        /\ \A k \in 1..maxRetries : b.answers[k] = "status429"
        /\ \E j \in DOMAIN Recorded(b) :
               /\ promise[Recorded(b)[j].id].status = "resolved"
               /\ promise[Recorded(b)[j].id].value # Recorded(b)[j].text

\* C14: after a successful answer every request of the group is resolved
\* with the answer's element at the rank of its own text among the distinct
\* texts of the group, or with its own text when that element is missing or
\* empty, and the cache holds the same value under the request's cacheKey.
C14_MappedByText ==
    \A i \in DOMAIN running :
        LET b == running[i] IN
        (GroupOver(b) /\ b.answers # <<>> /\ Last(b.answers) = "ok")
        => \A j \in DOMAIN Recorded(b) :
               LET request == Recorded(b)[j]
                   at == UniqueIndex(Recorded(b), request.text)
                   value == IF at + 1 \in DOMAIN b.translations
                               /\ b.translations[at + 1] # ""
                            THEN b.translations[at + 1]
                            ELSE request.text
               IN  /\ promise[request.id].status = "resolved"
                   /\ promise[request.id].value = value
                   /\ request.cacheKey \in DOMAIN cache
                   /\ cache[request.cacheKey] = value

\* a group of two requests, the later-sorted text enqueued first, answered
\* with a translation for the first text only: the first request holds that
\* translation, the second its own text
C14_Witness ==
    \E i \in DOMAIN running :
        LET b == running[i] IN
        /\ GroupOver(b)
        /\ b.answers # <<>> /\ Last(b.answers) = "ok"
        /\ Len(Recorded(b)) = 2
        /\ Recorded(b)[1].text = "b"
        /\ Recorded(b)[2].text = "a"
        /\ promise[Recorded(b)[1].id].value = Translated[1]
        /\ promise[Recorded(b)[2].id].value = "a"

\* a step in which clear() took effect: it dropped a queued request or was
\* seen by the running execution
ClearStep ==
    \/ \E k \in DOMAIN promise : promise'[k].dropped /\ ~promise[k].dropped
    \/ \E i \in DOMAIN running :
           /\ i \in DOMAIN running'
           /\ running'[i].cleared /\ ~running[i].cleared

\* C15: clear() leaves the queue empty and no debounce timer scheduled, the
\* cache, the processing flag, the running batch and the promises of the
\* requests outside the queue as they were; and a batch that was running
\* when clear() was called has resolved all its requests when it ends.
C15_ClearFrame ==
    [][/\ ClearStep =>
              /\ queue' = <<>>
              /\ ~scheduledTimeout'
              /\ timeoutPending' = 0
              /\ cache' = cache
              /\ processing' = processing
              /\ Len(running') = Len(running)
              /\ \A i \in DOMAIN running :
                     [running'[i] EXCEPT !.cleared = running[i].cleared] =
                         running[i]
              /\ \A k \in DOMAIN promise :
                     (\A j \in DOMAIN queue : queue[j].id # k)
                         => promise'[k] = promise[k]
       /\ \A i \in DOMAIN running :
              (/\ running[i].cleared
               /\ running[i].phase = "unwind"
               /\ Len(running') < Len(running))
              => \A j \in DOMAIN running[i].requests :
                     promise[running[i].requests[j].id].status = "resolved"
      ]_vars

\* C16: the promise of a request that clear() took from the queue is never
\* settled: it is pending, with no call of resolve or reject, in every later
\* state.
C16_DroppedStayPending ==
    \A k \in DOMAIN promise :
        promise[k].dropped =>
            /\ promise[k].status = "pending"
            /\ promise[k].settles = 0

\* a request was dropped by clear(), a later call with the same cacheKey was
\* translated and cached, and the dropped promise is still pending
C16_Witness ==
    /\ Rich
    /\ \E k, n \in DOMAIN promise :
           /\ k < n
           /\ promise[k].dropped
           /\ promise[k].status = "pending"
           /\ promise[n].cacheKey = promise[k].cacheKey
           /\ promise[n].enqueued
           /\ promise[n].status = "resolved"
           /\ promise[k].cacheKey \in DOMAIN cache

Enqueues ==
    /\ Len(promise') = Len(promise) + 1
    /\ promise'[Len(promise')].enqueued

\* C18: when translate() of the rich batcher enqueues a request while no
\* batch is processing and the queue thereby reaches maxBatchSize, the call
\* itself starts a batch: processing is true, the first maxBatchSize requests
\* of the queue have left it for the batch, no debounce timer is pending and
\* the timer reference is cleared.
C18_FullQueueStartsBatch ==
    [][(Rich /\ Enqueues /\ ~processing /\ Len(queue) + 1 >= size)
       => /\ processing'
          /\ Len(running') = Len(running) + 1
          /\ LET batch == running'[Len(running')].requests
                 all == batch \o queue'
             IN  /\ Len(batch) = size
                 /\ Len(all) = Len(queue) + 1
                 /\ SubSeq(all, 1, Len(queue)) = queue
                 /\ Last(all).id = Len(promise')
          /\ running'[Len(running')].phase = "call"
          /\ ~scheduledTimeout'
          /\ timeoutPending' = 0]_vars

\* every call so far is in the batch in flight, which is a full one: it was
\* started by the call that filled the queue, and the timer set by the
\* first call is gone
C18_Witness ==
    /\ Rich
    /\ processing
    /\ nBatches = 1
    /\ Len(promise) = size
    /\ Len(running) = 1
    /\ Len(running[1].requests) = size
    /\ running[1].phase = "call"
    /\ running[1].attempt = 0
    /\ timeoutPending = 0
    /\ ~scheduledTimeout

\* C19: the rich batcher has at most one debounce timer pending, and
\* this.scheduledTimeout is set exactly while it is; a timer is set only by a
\* translate() that finds no batch processing, the queue below maxBatchSize
\* and no timer scheduled; when a timer fires or is cancelled the reference
\* is cleared.
C19_OneDebounceTimer ==
    [][Rich =>
          /\ timeoutPending' <= 1
          /\ scheduledTimeout' <=> (timeoutPending' = 1)
          /\ timeoutPending' > timeoutPending =>
                 /\ Enqueues
                 /\ ~processing
                 /\ ~processing'
                 /\ Len(queue') < size
                 /\ ~scheduledTimeout
                 /\ timeoutPending = 0
          /\ timeoutPending' < timeoutPending => ~scheduledTimeout']_vars

\* a timer is pending and a second request has joined the first in the
\* queue without filling it
C19_Witness ==
    /\ Rich
    /\ ~processing
    /\ timeoutPending = 1
    /\ scheduledTimeout
    /\ Len(queue) = 2
    /\ Len(queue) < size

\* the requests that sit in a running batch
InBatch ==
    UNION {{running[i].requests[j].id : j \in DOMAIN running[i].requests} :
              i \in DOMAIN running}

\* requests whose batch ended without settling them: its execution threw
Abandoned ==
    {k \in DOMAIN promise :
        /\ promise[k].enqueued
        /\ ~promise[k].dropped
        /\ promise[k].status = "pending"
        /\ k \notin InBatch
        /\ \A j \in DOMAIN queue : queue[j].id # k}

\* C20: when the execution of a batch of the rich batcher throws,
\* processNextBatch still ends normally: processing is false again, the
\* queue is kept and, when it holds requests, the next batch is scheduled;
\* and whenever the batcher has nothing left to do the queue is empty, so
\* the requests that waited or came later were dispatched.
C20_ThrowDoesNotStopScheduler ==
    [][Rich =>
          /\ \A i \in DOMAIN running :
                 (running[i].threw /\ Len(running') < Len(running))
                 => /\ ~processing'
                    /\ queue' = queue
                    /\ queue # <<>> => retrigger' = retrigger + 1
          /\ (~processing' /\ running' = <<>> /\ timeoutPending' = 0
                 /\ retrigger' = 0)
             => queue' = <<>>]_vars

\* a batch threw and left its request pending; a request that was enqueued
\* later has been dispatched in a later batch and is resolved
C20_Witness ==
    /\ Rich
    /\ \E k \in Abandoned : \E n \in DOMAIN promise :
           /\ n > k
           /\ promise[n].enqueued
           /\ promise[n].status = "resolved"

C22_CacheOnSuccessOnly ==
    [][/\ \A i \in DOMAIN running :
              (i \in DOMAIN running' /\ running'[i].failed # running[i].failed)
              => cache' = cache
       /\ cache' # cache =>
              \E i \in DOMAIN running :
                  /\ running[i].phase = "call"
                  /\ i \in DOMAIN running'
                  /\ running'[i].answers = Append(running[i].answers, "ok")
       /\ (/\ Len(promise') = Len(promise) + 1
           /\ promise'[Len(promise')].cacheKey \notin DOMAIN cache)
          => promise'[Len(promise')].enqueued]_vars

\* a request was resolved with its own text by a failed group, which left
\* its cacheKey out of the cache; a call made with the same cacheKey after
\* that batch has ended waits in the queue
C22_Witness ==
    \E k, n \in DOMAIN promise :
        /\ k < n
        /\ promise[k].status = "resolved"
        /\ promise[k].value = promise[k].text
        /\ promise[k].cacheKey \notin DOMAIN cache
        /\ promise[n].cacheKey = promise[k].cacheKey
        /\ promise[n].enqueued
        /\ ~promise[n].duringBatch
        /\ promise[n].status = "pending"
        /\ \E j \in DOMAIN queue : queue[j].id = n

\* C23: a translate() of the rich batcher that misses the cache while a
\* batch is processing appends its request to the queue and does nothing
\* else: no batch is started, no timer is set, the running batch, the cache
\* and the other promises stay as they were, whatever the queue length.
C23_EnqueueOnlyWhileProcessing ==
    [][(Rich /\ Enqueues /\ processing)
       => /\ Len(queue') = Len(queue) + 1
          /\ SubSeq(queue', 1, Len(queue)) = queue
          /\ Last(queue').id = Len(promise')
          /\ Last(queue').text = promise'[Len(promise')].text
          /\ Last(queue').cacheKey = promise'[Len(promise')].cacheKey
          /\ promise'[Len(promise')].status = "pending"
          /\ SubSeq(promise', 1, Len(promise)) = promise
          /\ UNCHANGED <<processing, scheduledTimeout, timeoutPending,
                         retrigger, cache, running, nBatches>>]_vars

\* the queue has grown beyond maxBatchSize while the first batch, started
\* by the timer, is still in flight: nothing was started or scheduled
C23_Witness ==
    /\ Rich
    /\ processing
    /\ nBatches = 1
    /\ Len(running) = 1
    /\ Len(queue) > size
    /\ \A j \in DOMAIN queue : promise[queue[j].id].duringBatch
    /\ timeoutPending = 0
    /\ retrigger = 0

\* the ids of a sequence of requests; ids are given in order of the calls
Ids(requests) == [j \in DOMAIN requests |-> requests[j].id]

\* C24: in both variants requests leave the queue in the order they entered
\* it: the queue always holds the latest requests in order of enqueueing,
\* the batch in flight the ones just before them, and a step that starts a
\* batch takes the first min(maxBatchSize, queue length) requests of the
\* queue, in order, and leaves the rest.
C24_Fifo ==
    [][LET all == Ids(queue) \o (IF Len(promise') > Len(promise)
                                  THEN <<Len(promise')>> ELSE <<>>)
           taken == Len(all) - Len(queue')
       IN  /\ \A j \in DOMAIN queue' :
                  queue'[j].id = Len(promise') - Len(queue') + j
           /\ \A i \in DOMAIN running' :
                  LET batch == Ids(running'[i].requests) IN
                  /\ \A j \in DOMAIN batch : batch[j] = batch[1] + j - 1
                  /\ Last(batch) = Len(promise') - Len(queue')
           /\ nBatches' \in {nBatches, nBatches + 1}
           /\ taken = IF nBatches' > nBatches
                      THEN Min(size, Len(all)) ELSE 0
           /\ Ids(queue') = SubSeq(all, taken + 1, Len(all))
           /\ nBatches' > nBatches =>
                  IF running' # <<>>
                  THEN Ids(Last(running').requests) = SubSeq(all, 1, taken)
                  ELSE \A j \in 1..taken :
                           promise'[all[j]].status = "rejected"]_vars

\* the simple batcher took its second batch, a full one, from a queue of
\* three: the second and third request are in flight, the fourth waits
C24_Witness ==
    /\ Simple
    /\ nBatches = 2
    /\ Len(running) = 1
    /\ Len(running[1].requests) = size
    /\ running[1].requests[1].id = 2
    /\ Len(queue) = 1
    /\ queue[1].id = size + 2

\* C25: whenever a batch of the rich batcher finishes, processing going
\* from true to false, every request that was spliced into the batch has
\* been resolved.
C25_FinishedBatchResolved ==
    [][Rich =>
          \A i \in DOMAIN running :
              (/\ running[i].phase = "unwind"
               /\ processing
               /\ ~processing'
               /\ Len(running') < Len(running))
              => \A j \in DOMAIN running[i].requests :
                     promise'[running[i].requests[j].id].status = "resolved"]_vars

\* C26: the timer field of the simple batcher is set only while a debounce
\* timer is pending, and the simple batcher never rests with a non-empty
\* queue, no batch processing and no timer pending.
C26_TimerFieldMeansPending ==
    Simple =>
        /\ timer => timeoutPending > 0
        /\ (~processing /\ queue # <<>>) => timeoutPending > 0

\* C27: while the rich batcher is processing no debounce timer is
\* scheduled: getStats() never reports processing and scheduled together,
\* and no debounce callback is pending.
C27_NoTimerWhileProcessing ==
    (Rich /\ getStats(State).processing) =>
        /\ ~getStats(State).scheduled
        /\ timeoutPending = 0

\* a batch started by the timer is in flight, a request that came during
\* it waits in the queue and was not dropped, and no timer is scheduled
C27_Witness ==
    /\ Rich
    /\ getStats(State).processing
    /\ getStats(State).queueSize = 1
    /\ ~getStats(State).scheduled
    /\ nBatches = 1
    /\ Len(running) = 1
    /\ Len(running[1].requests) = 1
    /\ size = maxBatchSize + 1
    /\ promise[queue[1].id].duringBatch

\* C28: every network attempt of a language group after its first follows
\* a backoff wait: it is made after a sleep of positive length, whether the
\* attempt before it was answered with status 429 or threw an error whose
\* message names the rate limit.
C28_BackoffBetweenAttempts ==
    \A i \in DOMAIN running :
        (running[i].phase = "call" /\ running[i].attempt > 0)
        => running[i].wait > 0

\* the requests whose batch fails in this step
NewlyFailed ==
    {k \in DOMAIN promise' :
        /\ promise'[k].batchFailed
        /\ ~(k \in DOMAIN promise /\ promise[k].batchFailed)}

\* C29: when a batch of the simple batcher fails (no API key, a response
\* that is not OK, a body that is empty or cannot be parsed) every request
\* of that batch, and no other, is rejected, by one call of reject and no
\* call of resolve; the batch has left, processing is false again unless
\* the finally block has started the next batch, and the promises outside
\* the batch are as they were.
C29_FailedBatchRejected ==
    [][Simple =>
          /\ \A k \in DOMAIN promise' :
                 promise'[k].batchFailed =>
                     /\ promise'[k].status = "rejected"
                     /\ promise'[k].settles = 1
          /\ \A k \in DOMAIN promise' :
                 promise'[k].status = "rejected" => promise'[k].batchFailed
          /\ NewlyFailed # {} =>
                 /\ \/ \E i \in DOMAIN running :
                           NewlyFailed = {running[i].requests[j].id :
                                              j \in DOMAIN running[i].requests}
                    \/ /\ variant = "simpleXai" /\ ~apiKey
                       /\ running = <<>>
                       /\ NewlyFailed = {queue[j].id : j \in DOMAIN queue}
                                            \cup {Len(promise')}
                 /\ \A i \in DOMAIN running' :
                        \A j \in DOMAIN running'[i].requests :
                            running'[i].requests[j].id \notin NewlyFailed
                 /\ processing' =>
                        /\ nBatches' = nBatches + 1
                        /\ Len(running') = 1
                        /\ running'[1].phase = "call"
                 /\ \A k \in DOMAIN promise :
                        k \notin NewlyFailed => promise'[k] = promise[k]]_vars

\* one batch of two was translated, the next batch of two failed: its
\* requests are rejected, the earlier ones keep their translations, and the
\* batcher is idle
C29_Witness ==
    /\ Simple
    /\ ~processing
    /\ running = <<>>
    /\ queue = <<>>
    /\ Len(promise) = 4
    /\ \A k \in 1..2 : promise[k].status = "resolved" /\ promise[k].value # "a"
    /\ \A k \in 3..4 : promise[k].batchFailed /\ promise[k].status = "rejected"

\* C30: the handler starts min(CONCURRENCY, number of chunks) workers, so
\* at most CONCURRENCY provider calls run at once; no chunk is taken twice
\* and no two workers hold the same chunk; every translation lies in
\* results at the position of its text, that is at the offset of its chunk;
\* and when the handler answers with translations every chunk was
\* translated exactly once and, if every call returned as many elements as
\* its chunk has texts, the translations are those of the request's texts,
\* as many and in the same order.
C30_WorkerPool ==
    /\ Len(workers) = Min(CONCURRENCY, Len(chunks))
    /\ Cardinality({w \in DOMAIN workers : workers[w].pc = "call"})
           <= CONCURRENCY
    /\ \A c \in DOMAIN calls : calls[c] <= 1
    /\ \A v, w \in DOMAIN workers :
           (v # w /\ workers[v].pc = "call" /\ workers[w].pc = "call")
           => workers[v].myIndex # workers[w].myIndex
    /\ \A k \in DOMAIN results :
           results[k] \notin {<<>>, <<"extra">>} =>
               /\ k \in DOMAIN requestTexts
               /\ results[k] = translation(requestTexts[k])
    /\ response = "translations" =>
           /\ DOMAIN calls = DOMAIN chunks
           /\ \A c \in DOMAIN chunks : calls[c] = 1
           /\ exact =>
                  /\ Len(results) = Len(requestTexts)
                  /\ \A p \in DOMAIN requestTexts :
                         results[p] = translation(requestTexts[p])

\* a request of more chunks than workers, the last chunk a short one, was
\* answered with the translations of all its texts
C30_Witness ==
    /\ response = "translations"
    /\ exact
    /\ Len(requestTexts) = MaxTexts
    /\ Len(chunks) > Len(workers)
    /\ Len(workers) = CONCURRENCY
    /\ results[MaxTexts] = translation(MaxTexts)
====
